---- MODULE Spec2Model ----
(***************************************************************************)
(* Snake (CJendantix/snake): the game state machine of src/src/main.cpp    *)
(* and of the second build of the same program kept in                     *)
(* src/unnamed/part_000.  The third file, src/unnamed/part_001, has the    *)
(* game logic of main.cpp statement for statement (it differs in the      *)
(* random source and in GetCellSize only), so build "main" stands for it.  *)
(*                                                                         *)
(* State: the fields of struct Game, main's moveTimer, the position of     *)
(* main's loop (pc) and a record of the last call (last).                  *)
(***************************************************************************)
EXTENDS Integers, Sequences, FiniteSets, TLC

VARIABLES impl, width, height, snake, apple, direction, directionQueue,
          moveTimer, pc, last

vars == <<impl, width, height, snake, apple, direction, directionQueue,
          moveTimer, pc, last>>

(***************************************************************************)
(* Bounds of the model and constants of the program.                       *)
(***************************************************************************)
MaxCells == 8
MaxDim == 6
MaxDelta == 2
MaxSnake == 5
MaxScreen == 12
MaxOffset == 8
\* MOVE_INTERVAL = 0.1f seconds, in units of 50 ms
MOVE_INTERVAL == 2
\* the time a frame adds to moveTimer, in the same units: 0 for a frame
\* shorter than a unit (at FPS = 60 six frames pass between two Updates, and
\* keys can be served in each of them), up to MaxDelta for a slow one
FrameTimes == 0..MaxDelta
\* if (game.directionQueue.size() >= 3) return;
QueueCapacity == 3
BORDER_THICKNESS == 2

Impls == {"main", "part_000"}

Direction == {"UP", "DOWN", "LEFT", "RIGHT"}

Vector2Int(x, y) == [x |-> x, y |-> y]

\* std::ranges::find(game.snake, pos) != game.snake.end()
Contains(s, c) == \E i \in 1..Len(s) : s[i] = c

OffsetFromDirection(dir) ==
  CASE dir = "UP"    -> Vector2Int(0, -1)
    [] dir = "DOWN"  -> Vector2Int(0, 1)
    [] dir = "LEFT"  -> Vector2Int(-1, 0)
    [] dir = "RIGHT" -> Vector2Int(1, 0)
    [] OTHER         -> Vector2Int(0, 0)

\* a slip: the search of the snake is left out, only the walls end the game
IsGameOverWalls(w, h, s, newHead) ==
  newHead.x < 0 \/ newHead.x >= w \/ newHead.y < 0 \/ newHead.y >= h

\* a slip: > for >= in the test of the right and the bottom edge
IsGameOverLoose(w, h, s, newHead) ==
  IF newHead.x < 0 \/ newHead.x > w \/ newHead.y < 0 \/ newHead.y > h
  THEN TRUE
  ELSE Contains(s, newHead)

IsGameOver(w, h, s, newHead) ==
  IF newHead.x < 0 \/ newHead.x >= w \/ newHead.y < 0 \/ newHead.y >= h
  THEN TRUE
  ELSE Contains(s, newHead)

(***************************************************************************)
(* GetNewApplePosition: the set of cells a call can return.  The empty set *)
(* means that the call never returns.                                      *)
(***************************************************************************)
\* a slip: GetRandomValue(0, game.width), GetRandomValue(0, game.height)
RandomCellsInclusive(w, h) == {Vector2Int(x, y) : x \in 0..w, y \in 0..h}

\* GetRandomValue(0, game.width - 1), GetRandomValue(0, game.height - 1)
RandomCells(w, h) == {Vector2Int(x, y) : x \in 0..(w - 1), y \in 0..(h - 1)}

\* a slip: the snake's head, just pushed, is not looked at
GetNewApplePositionBody(w, h, s) ==
  {pos \in RandomCells(w, h) : ~Contains(Tail(s), pos)}

\* main.cpp: do { pos = random cell } while (pos is a snake cell);
\* the loop is left only with a cell that is not in the snake.
GetNewApplePosition(w, h, s) == {pos \in RandomCells(w, h) : ~Contains(s, pos)}

\* part_000: for x in [0,width) for y in [0,height): the k-th cell visited
CellAt(k, h) == Vector2Int((k - 1) \div h, (k - 1) % h)

\* part_000: emptyCells, in the order the two loops push them
EmptyCells(w, h, s) ==
  LET F[k \in 0..(w * h)] ==
        IF k = 0 THEN <<>>
        ELSE IF ~Contains(s, CellAt(k, h)) THEN Append(F[k - 1], CellAt(k, h))
             ELSE F[k - 1]
  IN F[w * h]

\* part_000: emptyCells[dis(gen)] with dis uniform on 0..size-1, else {0, 0}
GetNewApplePositionP0(w, h, s) ==
  LET emptyCells == EmptyCells(w, h, s) IN
  IF Len(emptyCells) > 0
  THEN {emptyCells[i + 1] : i \in 0..(Len(emptyCells) - 1)}
  ELSE {Vector2Int(0, 0)}

ApplePositions(i, w, h, s) ==
  IF i = "main" THEN GetNewApplePosition(w, h, s)
  ELSE GetNewApplePositionP0(w, h, s)

(***************************************************************************)
(* ResetGame: the three cells it lays out.                                 *)
(***************************************************************************)
\* a slip: the third cell is laid one cell too far from the second
ResetSnakeGap(w, h, dir) ==
  LET centerX == w \div 2
      centerY == h \div 2
      head == Vector2Int(centerX, centerY)
  IN CASE dir = "UP" ->
            <<head, Vector2Int(centerX, centerY + 1), Vector2Int(centerX, centerY + 3)>>
       [] dir = "DOWN" ->
            <<head, Vector2Int(centerX, centerY - 1), Vector2Int(centerX, centerY - 3)>>
       [] dir = "LEFT" ->
            <<head, Vector2Int(centerX + 1, centerY), Vector2Int(centerX + 3, centerY)>>
       [] OTHER ->
            <<head, Vector2Int(centerX - 1, centerY), Vector2Int(centerX - 3, centerY)>>

\* main.cpp: switch (game.direction) with RIGHT as the default case
ResetSnake(w, h, dir) ==
  LET centerX == w \div 2
      centerY == h \div 2
      head == Vector2Int(centerX, centerY)
  IN CASE dir = "UP" ->
            <<head, Vector2Int(centerX, centerY + 1), Vector2Int(centerX, centerY + 2)>>
       [] dir = "DOWN" ->
            <<head, Vector2Int(centerX, centerY - 1), Vector2Int(centerX, centerY - 2)>>
       [] dir = "LEFT" ->
            <<head, Vector2Int(centerX + 1, centerY), Vector2Int(centerX + 2, centerY)>>
       [] OTHER ->
            <<head, Vector2Int(centerX - 1, centerY), Vector2Int(centerX - 2, centerY)>>

\* part_000's OffsetFromDirection has no return after its switch: for a value
\* outside the enumeration the call flows off the end of the function, which
\* is undefined, and any pair of ints may come back (cut here to MaxOffset
\* either way); for the four enumerators it returns what main.cpp's returns.
OffsetFromDirectionP0(dir) ==
  IF dir \in Direction
  THEN {OffsetFromDirection(dir)}
  ELSE {Vector2Int(x, y) : x \in (-MaxOffset)..MaxOffset,
                          y \in (-MaxOffset)..MaxOffset}

\* part_000: second = head - offset, third = second - offset; the set of the
\* snakes the call can lay out, one snake for each offset that can come back
ResetSnakeP0(w, h, dir) ==
  LET head == Vector2Int(w \div 2, h \div 2)
      second(offset) == Vector2Int(head.x - offset.x, head.y - offset.y)
      third(offset) == Vector2Int(head.x - 2 * offset.x, head.y - 2 * offset.y)
  IN {<<head, second(offset), third(offset)>> : offset \in OffsetFromDirectionP0(dir)}

\* the snakes ResetGame can lay out: one in main.cpp, one in part_000 unless
\* the direction is outside the enumeration
ResetSnakeOf(i, w, h, dir) ==
  IF i = "main" THEN {ResetSnake(w, h, dir)} ELSE ResetSnakeP0(w, h, dir)

\* a slip: the direction is set to RIGHT on every reset
ResetDirectionRight(dir) == "RIGHT"

\* main.cpp: a direction outside the enumeration becomes RIGHT
ResetDirection(dir) == IF dir \notin Direction THEN "RIGHT" ELSE dir

(***************************************************************************)
(* QueueDirection: the queue after the call.                               *)
(***************************************************************************)
\* a slip in the first line of the test: LEFT is tested against LEFT
MayFollowSlip(newDirection, ref) ==
  \/ (newDirection = "LEFT" /\ ref # "LEFT")
  \/ (newDirection = "RIGHT" /\ ref # "LEFT")
  \/ (newDirection = "UP" /\ ref # "DOWN")
  \/ (newDirection = "DOWN" /\ ref # "UP")

\* the four-way test both builds use to let newDirection follow ref
MayFollow(newDirection, ref) ==
  \/ (newDirection = "LEFT" /\ ref # "RIGHT")
  \/ (newDirection = "RIGHT" /\ ref # "LEFT")
  \/ (newDirection = "UP" /\ ref # "DOWN")
  \/ (newDirection = "DOWN" /\ ref # "UP")

Back(q) == q[Len(q)]

\* a slip: the request is always tested against the committed direction
QueueDirectionStale(q, dir, newDirection) ==
  IF Len(q) >= QueueCapacity THEN q
  ELSE IF q # <<>> /\ Back(q) = newDirection THEN q
  ELSE IF MayFollow(newDirection, dir) THEN Append(q, newDirection) ELSE q

\* a slip: size() > 3 for size() >= 3
QueueDirectionLate(q, dir, newDirection) ==
  IF Len(q) > QueueCapacity THEN q
  ELSE IF q # <<>> /\ Back(q) = newDirection THEN q
  ELSE IF MayFollow(newDirection, IF q = <<>> THEN dir ELSE Back(q))
       THEN Append(q, newDirection) ELSE q

\* a slip: push at the front of the queue
QueueDirectionFront(q, dir, newDirection) ==
  IF Len(q) >= QueueCapacity THEN q
  ELSE IF q # <<>> /\ Back(q) = newDirection THEN q
  ELSE IF MayFollow(newDirection, IF q = <<>> THEN dir ELSE Back(q))
       THEN <<newDirection>> \o q ELSE q

\* main.cpp
QueueDirection(q, dir, newDirection) ==
  IF Len(q) >= QueueCapacity THEN q
  ELSE IF q # <<>> /\ Back(q) = newDirection THEN q
  ELSE IF q = <<>>
       THEN IF MayFollow(newDirection, dir) THEN Append(q, newDirection) ELSE q
       ELSE LET lastQueued == Back(q) IN
            IF MayFollow(newDirection, lastQueued) THEN Append(q, newDirection) ELSE q

\* part_000: no test for a repeated entry
QueueDirectionP0(q, dir, newDirection) ==
  IF Len(q) >= QueueCapacity THEN q
  ELSE LET lastDirection == IF q = <<>> THEN dir ELSE Back(q) IN
       IF MayFollow(newDirection, lastDirection) THEN Append(q, newDirection) ELSE q

QueueDirectionOf(i, q, dir, newDirection) ==
  IF i = "main" THEN QueueDirection(q, dir, newDirection)
  ELSE QueueDirectionP0(q, dir, newDirection)

\* a slip: the keys are never looked at
HandleInputDeaf(i, q, dir, keys) == q

\* HandleInput: the pressed keys are served in the order LEFT, RIGHT, UP, DOWN
HandleInput(i, q, dir, keys) ==
  LET q1 == IF "LEFT" \in keys THEN QueueDirectionOf(i, q, dir, "LEFT") ELSE q
      q2 == IF "RIGHT" \in keys THEN QueueDirectionOf(i, q1, dir, "RIGHT") ELSE q1
      q3 == IF "UP" \in keys THEN QueueDirectionOf(i, q2, dir, "UP") ELSE q2
      q4 == IF "DOWN" \in keys THEN QueueDirectionOf(i, q3, dir, "DOWN") ELSE q3
  IN q4

(***************************************************************************)
(* Update: its parts.                                                      *)
(***************************************************************************)
\* a slip: back() for front()
PopDirectionBack(q, dir) == IF q # <<>> THEN q[Len(q)] ELSE dir

\* the direction and the queue after the pop at the top of Update
PopDirection(q, dir) == IF q # <<>> THEN Head(q) ELSE dir
PopQueue(q) == IF q # <<>> THEN Tail(q) ELSE q

NewHead(s, dir) ==
  LET offset == OffsetFromDirection(dir) IN
  Vector2Int(s[1].x + offset.x, s[1].y + offset.y)

\* part_000: Update adds what its own OffsetFromDirection returns, so the
\* cells newHead can be are one for each offset that can come back
NewHeadP0(s, dir) ==
  {Vector2Int(s[1].x + offset.x, s[1].y + offset.y) :
     offset \in OffsetFromDirectionP0(dir)}

\* the cells Update can compute as newHead: one in main.cpp, one in part_000
\* unless the direction is outside the enumeration
NewHeadOf(i, s, dir) ==
  IF i = "main" THEN {NewHead(s, dir)} ELSE NewHeadP0(s, dir)

PushFront(s, c) == <<c>> \o s

\* a slip: pop_front for pop_back
PopFront(s) == SubSeq(s, 2, Len(s))

PopBack(s) == SubSeq(s, 1, Len(s) - 1)

(***************************************************************************)
(* The record of the last call: its name, its argument, what it returned   *)
(* and the game as it was when the call was made.                          *)
(***************************************************************************)
Call(op, arg, ret) ==
  [op |-> op, arg |-> arg, ret |-> ret, snake |-> snake, apple |-> apple,
   direction |-> direction, queue |-> directionQueue]

NoCall ==
  [op |-> "none", arg |-> "none", ret |-> FALSE, snake |-> <<>>,
   apple |-> Vector2Int(0, 0), direction |-> "RIGHT", queue |-> <<>>]

(***************************************************************************)
(* main: Game game(w, h, dir, {0, 0}, {}); the program itself is built     *)
(* with a grid of 25 x 25 cells and dir = RIGHT.                             *)
(***************************************************************************)
Constructed(sizes, dirs) ==
  /\ impl \in Impls
  /\ \E size \in sizes : width = size[1] /\ height = size[2]
  /\ direction \in dirs
  /\ snake = <<>>
  /\ apple = Vector2Int(0, 0)
  /\ directionQueue = <<>>
  /\ moveTimer = 0
  /\ pc = "start"
  /\ last = NoCall

\* the snake that main's first ResetGame lays out lies inside the grid
StartsInside(w, h) ==
  \A i \in 1..3 :
    LET c == ResetSnake(w, h, "RIGHT")[i] IN
    c.x >= 0 /\ c.x < w /\ c.y >= 0 /\ c.y < h

\* the grids of at most MaxCells cells on which the game starts like that
SmallGrids ==
  {size \in (1..MaxCells) \X (1..MaxCells) :
     size[1] * size[2] <= MaxCells /\ StartsInside(size[1], size[2])}

Init == Constructed(SmallGrids, {"RIGHT"})

(***************************************************************************)
(* ResetGame(game), called at startup and when Update has returned true.   *)
(* pc = "hung": the call is inside GetNewApplePosition and never returns.  *)
(***************************************************************************)
ResetGameAct ==
  /\ pc \in {"start", "reset"}
  /\ \E s \in ResetSnakeOf(impl, width, height, direction) :
       LET positions == ApplePositions(impl, width, height, s)
       IN /\ snake' = s
          /\ IF positions = {}
             THEN /\ pc' = "hung"
                  /\ UNCHANGED <<apple, direction>>
             ELSE /\ apple' \in positions
                  /\ direction' = IF impl = "main" THEN ResetDirection(direction)
                                  ELSE direction
                  /\ pc' = IF pc = "start" THEN "input" ELSE "render"
  /\ last' = Call("ResetGame", "none", FALSE)
  /\ UNCHANGED <<impl, width, height, directionQueue, moveTimer>>

\* a slip: moveTimer > MOVE_INTERVAL for moveTimer >= MOVE_INTERVAL
FrameInputLate(deltaTime, keys) ==
  /\ pc = "input"
  /\ moveTimer' = moveTimer + deltaTime
  /\ directionQueue' = HandleInput(impl, directionQueue, direction, keys)
  /\ pc' = IF moveTimer' > MOVE_INTERVAL THEN "update" ELSE "render"
  /\ last' = Call("HandleInput", "none", FALSE)
  /\ UNCHANGED <<impl, width, height, snake, apple, direction>>

(***************************************************************************)
(* One pass of main's loop up to the test of the timer: the frame's time   *)
(* is added to moveTimer and HandleInput serves the keys pressed.          *)
(***************************************************************************)
\* noted is what last keeps as the argument of the call
FrameInputNoting(deltaTime, keys, noted) ==
  /\ pc = "input"
  /\ moveTimer' = moveTimer + deltaTime
  /\ directionQueue' = HandleInput(impl, directionQueue, direction, keys)
  /\ pc' = IF moveTimer' >= MOVE_INTERVAL THEN "update" ELSE "render"
  /\ last' = Call("HandleInput", noted, FALSE)
  /\ UNCHANGED <<impl, width, height, snake, apple, direction>>

\* the pass with the queue before it kept in last
FrameInput(deltaTime, keys) == FrameInputNoting(deltaTime, keys, "none")

\* the pass with the queue before it and the pressed keys kept in last
FrameInputKeys(deltaTime, keys) == FrameInputNoting(deltaTime, keys, keys)

\* the part of Update after the test for game over, shared by the slips below
UpdateMoves(newHead) ==
  /\ last' = Call("Update", "none", FALSE)
  /\ IF newHead = apple
     THEN LET positions ==
                ApplePositions(impl, width, height, PushFront(snake, newHead))
          IN /\ snake' = PushFront(snake, newHead)
             /\ IF positions = {}
                THEN pc' = "hung" /\ apple' = apple
                ELSE pc' = "render" /\ apple' \in positions
     ELSE /\ snake' = PopBack(PushFront(snake, newHead))
          /\ pc' = "render"
          /\ apple' = apple

\* a slip: push_front comes before the test for game over
UpdateActPushFirst ==
  /\ pc = "update"
  /\ moveTimer' = 0
  /\ direction' = PopDirection(directionQueue, direction)
  /\ directionQueue' = PopQueue(directionQueue)
  /\ \E newHead \in NewHeadOf(impl, snake, direction') :
     IF IsGameOver(width, height, snake, newHead)
     THEN /\ pc' = "reset"
          /\ last' = Call("Update", "none", TRUE)
          /\ snake' = PushFront(snake, newHead)
          /\ apple' = apple
     ELSE UpdateMoves(newHead)
  /\ UNCHANGED <<impl, width, height>>

\* a slip: main drops what Update returns and goes on to render
UpdateActNoReset ==
  /\ pc = "update"
  /\ moveTimer' = 0
  /\ direction' = PopDirection(directionQueue, direction)
  /\ directionQueue' = PopQueue(directionQueue)
  /\ \E newHead \in NewHeadOf(impl, snake, direction') :
     IF IsGameOver(width, height, snake, newHead)
     THEN /\ pc' = "render"
          /\ last' = Call("Update", "none", TRUE)
          /\ UNCHANGED <<snake, apple>>
     ELSE UpdateMoves(newHead)
  /\ UNCHANGED <<impl, width, height>>

(***************************************************************************)
(* moveTimer = 0.0f; Update(game)                                          *)
(***************************************************************************)
UpdateAct ==
  /\ pc = "update"
  /\ moveTimer' = 0
  /\ direction' = PopDirection(directionQueue, direction)
  /\ directionQueue' = PopQueue(directionQueue)
  /\ \E newHead \in NewHeadOf(impl, snake, direction') :
     IF IsGameOver(width, height, snake, newHead)
     THEN /\ pc' = "reset"
          /\ last' = Call("Update", "none", TRUE)
          /\ UNCHANGED <<snake, apple>>
     ELSE /\ last' = Call("Update", "none", FALSE)
          /\ IF newHead = apple
             THEN LET positions ==
                        ApplePositions(impl, width, height, PushFront(snake, newHead))
                  IN /\ snake' = PushFront(snake, newHead)
                     /\ IF positions = {}
                        THEN pc' = "hung" /\ apple' = apple
                        ELSE pc' = "render" /\ apple' \in positions
             ELSE /\ snake' = PopBack(PushFront(snake, newHead))
                  /\ pc' = "render"
                  /\ apple' = apple
  /\ UNCHANGED <<impl, width, height>>

\* GetScreenWidth, GetScreenHeight, BeginDrawing, Render, EndDrawing
RenderAct ==
  /\ pc = "render"
  /\ pc' = "input"
  /\ last' = NoCall
  /\ UNCHANGED <<impl, width, height, snake, apple, direction, directionQueue,
                 moveTimer>>

Next ==
  \/ ResetGameAct
  \/ \E deltaTime \in FrameTimes, keys \in SUBSET Direction :
       FrameInput(deltaTime, keys)
  \/ UpdateAct
  \/ RenderAct

Spec == Init /\ [][Next]_vars

(***************************************************************************)
(* The same loop with the keys of every frame kept in last, on the small   *)
(* grids of more than one row.                                             *)
(***************************************************************************)
InitInput == Constructed({size \in SmallGrids : size[2] > 1}, {"RIGHT"})

NextInput ==
  \/ ResetGameAct
  \/ \E deltaTime \in FrameTimes, keys \in SUBSET Direction :
       FrameInputKeys(deltaTime, keys)
  \/ UpdateAct
  \/ RenderAct

SpecInput == InitInput /\ [][NextInput]_vars

(***************************************************************************)
(* QueueDirection called by itself, any number of times, on a game with    *)
(* any committed direction and an empty queue.                             *)
(***************************************************************************)
QueueDirectionAct(newDirection) ==
  /\ pc = "input"
  /\ directionQueue' =
       QueueDirectionOf(impl, directionQueue, direction, newDirection)
  /\ last' = Call("QueueDirection", newDirection, FALSE)
  /\ UNCHANGED <<impl, width, height, snake, apple, direction, moveTimer, pc>>

InitEnqueue == Constructed({<<MaxDim, MaxDim>>}, Direction)

NextEnqueue ==
  \/ ResetGameAct
  \/ \E newDirection \in Direction : QueueDirectionAct(newDirection)

SpecEnqueue == InitEnqueue /\ [][NextEnqueue]_vars

(***************************************************************************)
(* ResetGame called once on a game of any size and committed direction.    *)
(***************************************************************************)
InitReset == Constructed((1..MaxDim) \X (1..MaxDim), Direction)

NextReset == ResetGameAct

SpecReset == InitReset /\ [][NextReset]_vars

(***************************************************************************)
(* The game loop on the smallest square grid on which ResetGame lays the   *)
(* snake inside the grid whatever the direction, as it does on the 25 x 25 *)
(* grid of the program.  The runs followed are those in which the snake    *)
(* has at most MaxSnake cells: long enough for the head to reach a cell of *)
(* the body that is not the tail.                                          *)
(***************************************************************************)
ResetsInside(w, h) ==
  \A i \in Impls, dir \in Direction :
    \A s \in ResetSnakeOf(i, w, h, dir), k \in 1..3 :
      s[k].x >= 0 /\ s[k].x < w /\ s[k].y >= 0 /\ s[k].y < h

FieldSize ==
  CHOOSE n \in 1..MaxDim :
    ResetsInside(n, n) /\ \A m \in 1..(n - 1) : ~ResetsInside(m, m)

InitField == Constructed({<<FieldSize, FieldSize>>}, {"RIGHT"})

(***************************************************************************)
(* One whole pass of main's loop, from one frame boundary to the next:     *)
(* moveTimer += deltaTime; HandleInput; if the timer has reached           *)
(* MOVE_INTERVAL, moveTimer = 0 and Update, and ResetGame if Update        *)
(* returned true; Render.  queued is the queue that HandleInput leaves.    *)
(***************************************************************************)
\* the frame times tried on this grid: a frame shorter than a unit, so that
\* any number of passes serve keys between two Updates, and a frame of a
\* whole interval, so that Update can fall due in any pass
FieldTimes == {0, MOVE_INTERVAL}

\* a pass in which the timer stays under MOVE_INTERVAL
FrameIdle(deltaTime, queued) ==
  /\ pc = "input"
  /\ moveTimer + deltaTime < MOVE_INTERVAL
  /\ moveTimer' = moveTimer + deltaTime
  /\ directionQueue' = queued
  /\ last' = NoCall
  /\ UNCHANGED <<impl, width, height, snake, apple, direction, pc>>

\* a pass in which the timer reaches MOVE_INTERVAL, whatever the frame's time
FrameTick(queued) ==
  /\ pc = "input"
  /\ {deltaTime \in FieldTimes : moveTimer + deltaTime >= MOVE_INTERVAL} # {}
  /\ moveTimer' = 0
  /\ directionQueue' = PopQueue(queued)
  /\ last' = NoCall
  /\ UNCHANGED <<impl, width, height>>
  /\ \E newHead \in NewHeadOf(impl, snake, PopDirection(queued, direction)) :
     LET committed == PopDirection(queued, direction)
         grown == PushFront(snake, newHead)
     IN IF IsGameOver(width, height, snake, newHead)
        THEN \E laid \in ResetSnakeOf(impl, width, height, committed) :
             /\ snake' = laid
             /\ IF ApplePositions(impl, width, height, laid) = {}
                THEN pc' = "hung" /\ apple' = apple /\ direction' = committed
                ELSE /\ pc' = "input"
                     /\ apple' \in ApplePositions(impl, width, height, laid)
                     /\ direction' = IF impl = "main"
                                     THEN ResetDirection(committed)
                                     ELSE committed
        ELSE /\ direction' = committed
             /\ IF newHead = apple
                THEN /\ snake' = grown
                     /\ IF ApplePositions(impl, width, height, grown) = {}
                        THEN pc' = "hung" /\ apple' = apple
                        ELSE /\ pc' = "input"
                             /\ apple' \in ApplePositions(impl, width, height, grown)
                ELSE /\ snake' = PopBack(grown)
                     /\ apple' = apple
                     /\ pc' = "input"

\* the queues HandleInput can leave, over the sets of keys pressed in a frame
InputOutcomes ==
  {HandleInput(impl, directionQueue, direction, keys) : keys \in SUBSET Direction}

NextField ==
  \/ ResetGameAct
  \/ \E deltaTime \in FieldTimes, queued \in InputOutcomes :
       FrameIdle(deltaTime, queued)
  \/ \E queued \in InputOutcomes : FrameTick(queued) /\ Len(snake') <= MaxSnake

SpecField == InitField /\ [][NextField]_vars

(***************************************************************************)
(* Render: the size of a cell and the place of the grid in the window.     *)
(***************************************************************************)
\* int / int in C++: the quotient is truncated toward zero (b > 0 here)
IntDiv(a, b) == IF a >= 0 THEN a \div b ELSE -((-a) \div b)

Min(a, b) == IF b < a THEN b ELSE a

Max(a, b) == IF a < b THEN b ELSE a

\* a slip: std::max for std::min
GetCellSizeMax(gameWidth, gameHeight, screenWidth, screenHeight) ==
  LET cellWidth == IntDiv(screenWidth - BORDER_THICKNESS * 2, gameWidth)
      cellHeight == IntDiv(screenHeight - BORDER_THICKNESS * 2, gameHeight)
  IN Max(cellWidth, cellHeight)

GetCellSize(gameWidth, gameHeight, screenWidth, screenHeight) ==
  LET cellWidth == IntDiv(screenWidth - BORDER_THICKNESS * 2, gameWidth)
      cellHeight == IntDiv(screenHeight - BORDER_THICKNESS * 2, gameHeight)
  IN Min(cellWidth, cellHeight)

\* the numbers Render computes before it draws
RenderLayout(w, h, screenWidth, screenHeight) ==
  LET cellSize == GetCellSize(w, h, screenWidth, screenHeight)
      gameWidthPx == cellSize * w
      gameHeightPx == cellSize * h
      offsetX == IntDiv(screenWidth - gameWidthPx, 2)
      offsetY == IntDiv(screenHeight - gameHeightPx, 2)
  IN [cellSize |-> cellSize, offsetX |-> offsetX, offsetY |-> offsetY,
      borderX |-> offsetX - BORDER_THICKNESS,
      borderY |-> offsetY - BORDER_THICKNESS]

\* GetScreenWidth, GetScreenHeight, BeginDrawing, Render, EndDrawing, with
\* the window's size and the numbers Render computed kept in last
RenderWith(screenWidth, screenHeight) ==
  /\ pc = "render"
  /\ pc' = "input"
  /\ last' = Call("Render", <<screenWidth, screenHeight>>,
                  RenderLayout(width, height, screenWidth, screenHeight))
  /\ UNCHANGED <<impl, width, height, snake, apple, direction, directionQueue,
                 moveTimer>>

(***************************************************************************)
(* The game loop on a grid of any size up to MaxDim x MaxDim, no key       *)
(* pressed, rendered in a window of any size up to MaxScreen x MaxScreen   *)
(* pixels.                                                                 *)
(***************************************************************************)
InitRender == Constructed((1..MaxDim) \X (1..MaxDim), {"RIGHT"})

NextRender ==
  \/ ResetGameAct
  \/ \E deltaTime \in FrameTimes : FrameInput(deltaTime, {})
  \/ UpdateAct
  \/ \E screenWidth \in 0..MaxScreen, screenHeight \in 0..MaxScreen :
       RenderWith(screenWidth, screenHeight)

SpecRender == InitRender /\ [][NextRender]_vars

(***************************************************************************)
(* Vocabulary of the properties.                                           *)
(***************************************************************************)
IsOpposite(a, b) == {a, b} = {"UP", "DOWN"} \/ {a, b} = {"LEFT", "RIGHT"}

InsideGrid(c) == c.x >= 0 /\ c.x < width /\ c.y >= 0 /\ c.y < height

GridCells == {c \in [x : 0..(width - 1), y : 0..(height - 1)] : TRUE}

CellsOf(s) == {s[i] : i \in 1..Len(s)}

\* the committed direction followed by the queued ones
EffectiveDirections == <<direction>> \o directionQueue

\* the last call was Update and it has returned
Updated == last.op = "Update" /\ pc # "hung"

\* the last call was ResetGame and it has returned
WasReset == last.op = "ResetGame" /\ pc # "hung"

\* the cell the last Update computed as newHead: direction is the committed
\* direction after the pop, last.snake the snake the call was given
UpdateHead == NewHead(last.snake, direction)

\* C1: under any sequence of QueueDirection calls made on an empty queue and
\* any committed direction, no two neighbours in the sequence "committed
\* direction, then the queue from front to back" are opposite directions.
C1_NoAdjacentOpposites ==
  \A i \in 1..(Len(EffectiveDirections) - 1) :
    ~IsOpposite(EffectiveDirections[i], EffectiveDirections[i + 1])

\* three requests were accepted one after the other
C1_Witness ==
  /\ last.op = "QueueDirection"
  /\ Len(last.queue) = 2
  /\ Len(directionQueue) = 3

\* C2: in every state of the game loop (HandleInput, Update and ResetGame in
\* any order the loop allows) the queue holds at most 3 directions.
C2_QueueAtMostThree == Len(directionQueue) <= 3

\* the queue is full when a tick is due
C2_Witness == pc = "update" /\ Len(directionQueue) = 3

\* C3: when Update has returned, it returned true if newHead is outside the
\* grid or on a snake cell other than the last one, and false if newHead is
\* inside the grid and on no snake cell.
C3_UpdateResult ==
  Updated =>
    /\ (~InsideGrid(UpdateHead) \/ Contains(PopBack(last.snake), UpdateHead))
         => last.ret = TRUE
    /\ (InsideGrid(UpdateHead) /\ ~Contains(last.snake, UpdateHead))
         => last.ret = FALSE

\* Update returned true for a head inside the grid: the snake ran into itself
C3_Witness ==
  /\ Updated
  /\ InsideGrid(UpdateHead)
  /\ Contains(PopBack(last.snake), UpdateHead)
  /\ last.ret = TRUE

\* C4: on a move that does not grow the snake, a newHead inside the grid and
\* equal to the snake's last cell makes Update return false and the snake
\* advance into that cell.
C4_TailCellIsFree ==
  (/\ Updated
   /\ UpdateHead # last.apple
   /\ InsideGrid(UpdateHead)
   /\ UpdateHead = Back(last.snake))
  => /\ last.ret = FALSE
     /\ snake = PushFront(PopBack(last.snake), UpdateHead)

\* C5 as stated: after ResetGame has returned, whatever the grid and the
\* committed direction, the snake has exactly 3 cells, all of them inside the
\* grid, and the apple is on none of them.
C5_ResetAnyGrid ==
  WasReset =>
    /\ Len(snake) = 3
    /\ \A i \in 1..Len(snake) : InsideGrid(snake[i])
    /\ ~Contains(snake, apple)

\* C5 amended: on a grid at least 5 cells wide and 5 cells high ResetGame
\* returns, whatever the committed direction, and then the snake has exactly
\* 3 cells, all of them inside the grid, and the apple is inside the grid and
\* on none of them.
C5_ResetFromFiveByFive ==
  (last.op = "ResetGame" /\ width >= 5 /\ height >= 5) =>
    /\ pc # "hung"
    /\ Len(snake) = 3
    /\ \A i \in 1..Len(snake) : InsideGrid(snake[i])
    /\ ~Contains(snake, apple)

\* a reset on the smallest such grid, the third cell on the grid's last column
C5_Witness ==
  /\ WasReset
  /\ width = 5
  /\ height = 5
  /\ direction = "LEFT"
  /\ snake[3] = Vector2Int(4, 2)
  /\ ~Contains(snake, apple)

\* C6: after ResetGame has returned the queue is empty.
C6_QueueEmptyAfterReset == WasReset => directionQueue = <<>>

\* the cells of the grid that the snake s leaves free
FreeCells(s) == GridCells \ CellsOf(s)

\* the last Update moved the head onto the apple
AteApple ==
  /\ last.op = "Update"
  /\ UpdateHead = last.apple
  /\ InsideGrid(UpdateHead)
  /\ ~Contains(last.snake, UpdateHead)

\* C7: when Update moves the head onto the apple and the grown snake leaves a
\* cell of the grid free, Update returns false, the snake is newHead followed
\* by the whole old snake, and the new apple is inside the grid and on no cell
\* of the new snake.
C7_EatGrowsByOne ==
  (AteApple /\ FreeCells(PushFront(last.snake, UpdateHead)) # {}) =>
    /\ pc # "hung"
    /\ last.ret = FALSE
    /\ snake = <<UpdateHead>> \o last.snake
    /\ Len(snake) = Len(last.snake) + 1
    /\ InsideGrid(apple)
    /\ ~Contains(snake, apple)

\* the snake has just grown from 3 to 4 cells and the apple has moved
C7_Witness ==
  /\ AteApple
  /\ pc = "render"
  /\ Len(last.snake) = 3
  /\ Len(snake) = 4
  /\ apple # last.apple

\* C8: when Update moves the head onto a cell inside the grid that is neither
\* a snake cell nor the apple, it returns false, the snake keeps its length,
\* its first cell is newHead, its cell i is the old cell i-1 for every
\* i >= 2, and the apple stays where it was.
C8_PlainMoveShifts ==
  (/\ last.op = "Update"
   /\ InsideGrid(UpdateHead)
   /\ ~Contains(last.snake, UpdateHead)
   /\ UpdateHead # last.apple)
  => /\ pc # "hung"
     /\ last.ret = FALSE
     /\ Len(snake) = Len(last.snake)
     /\ snake[1] = UpdateHead
     /\ \A i \in 2..Len(snake) : snake[i] = last.snake[i - 1]
     /\ apple = last.apple

\* a snake of 4 cells has made a plain move
C8_Witness ==
  /\ Updated
  /\ last.ret = FALSE
  /\ UpdateHead # last.apple
  /\ Len(last.snake) = 4
  /\ Len(snake) = 4
  /\ snake[4] = last.snake[3]

\* the last call placed the apple: ResetGame, or Update after eating
PlacedApple == last.op = "ResetGame" \/ AteApple

\* C9: GetNewApplePosition returns on every snake and grid, and on a snake
\* that covers the whole grid it returns the cell (0,0).
C9_PlacementReturns ==
  /\ pc # "hung"
  /\ (PlacedApple /\ FreeCells(snake) = {}) => apple = Vector2Int(0, 0)

\* C10: when the snake leaves a cell of the grid free, GetNewApplePosition
\* returns a cell inside the grid that is not a snake cell, and every free
\* cell is among the cells it can return.
C10_PlacementOnFreeCell ==
  FreeCells(snake) # {} =>
    /\ ApplePositions(impl, width, height, snake) = FreeCells(snake)
    /\ PlacedApple => (pc # "hung" /\ InsideGrid(apple) /\ ~Contains(snake, apple))

\* ResetGame has placed the apple with more than one free cell to choose from
C10_Witness ==
  /\ WasReset
  /\ Cardinality(FreeCells(snake)) > 1
  /\ apple \in FreeCells(snake)

\* the last call was QueueDirection(game, last.arg)
Enqueued == last.op = "QueueDirection"

\* the direction a request is tested against: the back of the queue, or the
\* committed direction when the queue is empty
Reference(q, dir) == IF q = <<>> THEN dir ELSE Back(q)

\* C11: QueueDirection leaves the queue as it is when the queue is not empty
\* and its back equals the request, so the queue never holds the same
\* direction twice in a row.
C11_DuplicateDropped ==
  /\ (Enqueued /\ last.queue # <<>> /\ Back(last.queue) = last.arg)
       => directionQueue = last.queue
  /\ \A i \in 1..(Len(directionQueue) - 1) :
       directionQueue[i] # directionQueue[i + 1]

\* C12: QueueDirection leaves the game as it is when the request is the
\* opposite of the reference direction; with RIGHT committed and an empty
\* queue, LEFT is refused and UP is appended.
C12_ReversalRefused ==
  Enqueued =>
    /\ IsOpposite(Reference(last.queue, last.direction), last.arg)
         => /\ directionQueue = last.queue
            /\ direction = last.direction
            /\ snake = last.snake
            /\ apple = last.apple
            /\ pc = "input"
    /\ (last.direction = "RIGHT" /\ last.queue = <<>> /\ last.arg = "LEFT")
         => directionQueue = <<>>
    /\ (last.direction = "RIGHT" /\ last.queue = <<>> /\ last.arg = "UP")
         => directionQueue = <<"UP">>

\* LEFT was asked for with UP, RIGHT queued and was refused
C12_Witness ==
  /\ Enqueued
  /\ last.queue = <<"UP", "RIGHT">>
  /\ last.arg = "LEFT"
  /\ directionQueue = last.queue

\* the loop is at a frame boundary: the initial ResetGame has run and the
\* next thing main does is read a frame's time and input
FrameBoundary == pc = "input"

\* C13: at every frame boundary reached from startup the snake has at least
\* 3 cells, no cell appears twice in it, and every cell is inside the grid.
C13_SnakeWellFormed ==
  FrameBoundary =>
    /\ Len(snake) >= 3
    /\ \A i, j \in 1..Len(snake) : snake[i] = snake[j] => i = j
    /\ \A i \in 1..Len(snake) : InsideGrid(snake[i])

\* a snake of five cells has coiled up, and the turn at the front of the
\* queue takes its head into its fourth cell, which the next Update would
\* not free
C13_Witness ==
  /\ FrameBoundary
  /\ Len(snake) = 5
  /\ directionQueue # <<>>
  /\ NewHead(snake, Head(directionQueue)) = snake[4]

\* C14: at every frame boundary reached from startup, while the snake leaves
\* a cell of the grid free, the apple is inside the grid and not on the snake.
C14_AppleOffSnake ==
  (FrameBoundary /\ FreeCells(snake) # {}) =>
    /\ InsideGrid(apple)
    /\ ~Contains(snake, apple)

\* the apple lies next to the head of a grown snake, in the cell ahead of it
C14_Witness ==
  /\ FrameBoundary
  /\ Len(snake) > 3
  /\ apple = NewHead(snake, direction)
  /\ InsideGrid(apple)

\* the last call was Update and it returned true
GameOverPending == last.op = "Update" /\ last.ret = TRUE

\* C15: when Update returns true the snake and the apple are exactly as they
\* were before the call; the direction and the queue differ from before only
\* by the pop at the top of Update.
C15_GameOverLeavesBody ==
  GameOverPending =>
    /\ snake = last.snake
    /\ apple = last.apple
    /\ IF last.queue = <<>>
       THEN direction = last.direction /\ directionQueue = <<>>
       ELSE direction = Head(last.queue) /\ directionQueue = Tail(last.queue)

\* Update popped a turn off the queue and returned true
C15_Witness ==
  /\ GameOverPending
  /\ last.queue # <<>>
  /\ direction # last.direction
  /\ snake = last.snake

\* q begins with the entries of p, in the same order
IsPrefix(p, q) == Len(p) <= Len(q) /\ SubSeq(q, 1, Len(p)) = p

\* C16: each Update takes exactly the front entry off a queue that is not
\* empty, makes it the committed direction and moves by it, and leaves an
\* empty queue and the committed direction alone; between two Updates entries
\* are only added at the back, so the entry at position k is committed at the
\* k-th following Update.
C16_QueueIsFifo ==
  /\ last.op = "Update" =>
       /\ IF last.queue = <<>>
          THEN direction = last.direction /\ directionQueue = <<>>
          ELSE direction = Head(last.queue) /\ directionQueue = Tail(last.queue)
       /\ LET offset == OffsetFromDirection(direction)
              moved == Vector2Int(last.snake[1].x + offset.x,
                                  last.snake[1].y + offset.y)
          IN IF last.ret
             THEN ~InsideGrid(moved) \/ Contains(last.snake, moved)
             ELSE snake[1] = moved
  /\ last.op = "HandleInput" =>
       IsPrefix(last.queue, directionQueue) /\ direction = last.direction
  /\ last.op = "ResetGame" =>
       directionQueue = last.queue /\ direction = last.direction

\* Update took the first of three queued directions and turned the snake by it
C16_Witness ==
  /\ last.op = "Update"
  /\ Len(last.queue) = 3
  /\ direction = Head(last.queue)
  /\ direction # last.direction
  /\ directionQueue = Tail(last.queue)

\* what a step that calls ResetGame does to the game
ResetLaysOut ==
  pc \in {"start", "reset"} =>
    LET head == Vector2Int(width \div 2, height \div 2)
        offset == OffsetFromDirection(direction)
    IN /\ snake' = <<head,
                     Vector2Int(head.x - offset.x, head.y - offset.y),
                     Vector2Int(head.x - 2 * offset.x, head.y - 2 * offset.y)>>
       /\ direction' = direction
       /\ width' = width
       /\ height' = height

\* C17: ResetGame puts the head on the cell (width div 2, height div 2) and
\* the second and third cells one and two offsets of the committed direction
\* behind it, and leaves the committed direction, width and height as they
\* were.
C17_ResetLayout == [][ResetLaysOut]_vars

\* ResetGame was called on a grid of 6 x 5 cells with DOWN committed
C17_Witness ==
  /\ WasReset
  /\ width = 6
  /\ height = 5
  /\ last.direction = "DOWN"
  /\ direction = "DOWN"
  /\ snake = <<Vector2Int(3, 2), Vector2Int(3, 1), Vector2Int(3, 0)>>

\* what a step does while a game over is pending, and where a step may end
ResetFollowsGameOver ==
  /\ GameOverPending =>
       /\ pc = "reset"
       /\ last'.op = "ResetGame"
       /\ directionQueue' = directionQueue
       /\ moveTimer' = moveTimer
  /\ pc' \in {"input", "render"} => ~(last'.op = "Update" /\ last'.ret)

\* C18: when Update returns true the next thing main does is ResetGame, with
\* no input read and no time added in between, so that no frame is rendered
\* and no frame begins while a game over is pending.
C18_ResetInSameFrame == [][ResetFollowsGameOver]_vars

\* ResetGame has run after a game over and the frame goes on to render
C18_Witness ==
  /\ WasReset
  /\ pc = "render"
  /\ last.snake # <<>>
  /\ snake # last.snake

\* C19: in a frame Update is called once if moveTimer has reached
\* MOVE_INTERVAL and not at all otherwise, whatever the frame's time, and
\* moveTimer is 0 after every Update, so no frame begins with time left over.
C19_TickOncePerFrame ==
  /\ last.op = "HandleInput" =>
       /\ pc \in {"update", "render"}
       /\ pc = "update" <=> moveTimer >= MOVE_INTERVAL
  /\ pc = "update" => last.op = "HandleInput"
  /\ last.op = "Update" => (moveTimer = 0 /\ pc \in {"reset", "render", "hung"})
  /\ pc \in {"input", "reset"} => moveTimer = 0 \/ moveTimer < MOVE_INTERVAL
  /\ pc = "reset" => moveTimer = 0

\* a frame's time has carried moveTimer past MOVE_INTERVAL and Update is due
C19_Witness ==
  /\ pc = "update"
  /\ last.op = "HandleInput"
  /\ moveTimer > MOVE_INTERVAL

\* the order in which HandleInput serves the keys
ServedOrder == <<"LEFT", "RIGHT", "UP", "DOWN">>

\* the pressed keys that may follow dir
Acceptable(keys, dir) == {d \in keys : ~IsOpposite(dir, d)}

\* the first of them in the order they are served
FirstAccepted(keys, dir) ==
  LET k == CHOOSE i \in 1..4 :
             /\ ServedOrder[i] \in Acceptable(keys, dir)
             /\ \A j \in 1..(i - 1) : ServedOrder[j] \notin Acceptable(keys, dir)
  IN ServedOrder[k]

\* what the first and the second step of a frame do with the pressed keys
InputThenTick ==
  /\ pc = "input" =>
       /\ last'.op = "HandleInput"
       /\ pc' \in {"update", "render"}
       /\ (directionQueue = <<>> /\ Acceptable(last'.arg, direction) # {}) =>
            /\ directionQueue' # <<>>
            /\ Head(directionQueue') = FirstAccepted(last'.arg, direction)
  /\ (/\ pc = "update"
      /\ last.op = "HandleInput"
      /\ last.queue = <<>>
      /\ Acceptable(last.arg, last.direction) # {}) =>
       /\ direction' = FirstAccepted(last.arg, last.direction)
       /\ last'.op = "Update"
       /\ last'.ret \/ snake'[1] = NewHead(snake, direction')

\* C20: every frame serves the pressed keys, whether or not Update follows,
\* and serves them before Update: the first direction accepted into an empty
\* queue stands at its front, and in a frame whose timer has reached
\* MOVE_INTERVAL it is the direction that frame's Update commits and moves by.
C20_InputBeforeTick == [][InputThenTick]_vars

\* UP was pressed with RIGHT committed and an empty queue, in a frame whose
\* timer has reached MOVE_INTERVAL
C20_Witness ==
  /\ pc = "update"
  /\ last.op = "HandleInput"
  /\ last.direction = "RIGHT"
  /\ last.queue = <<>>
  /\ last.arg = {"UP"}
  /\ directionQueue = <<"UP">>

\* C21: the newHead that Update computes is never the second cell of the
\* snake: after every Update the committed direction did not lead from the
\* head the call was given into its neck, and at every point of the loop the
\* direction the next Update will commit does not lead into the neck either.
C21_NeverIntoNeck ==
  /\ last.op = "Update" => NewHead(last.snake, direction) # last.snake[2]
  /\ pc \in {"input", "update", "render"} =>
       NewHead(snake, PopDirection(directionQueue, direction)) # snake[2]

\* Update took a turn off the queue and the snake moved by it
C21_Witness ==
  /\ last.op = "Update"
  /\ ~last.ret
  /\ last.queue # <<>>
  /\ direction # last.direction
  /\ snake[1] = NewHead(last.snake, direction)
  /\ snake[2] = last.snake[1]

\* what a QueueDirection step does to the game
EnqueueAppendsOrSkips ==
  last'.op = "QueueDirection" =>
    /\ \/ directionQueue' = directionQueue
       \/ directionQueue' = Append(directionQueue, last'.arg)
    /\ direction' = direction
    /\ snake' = snake
    /\ apple' = apple
    /\ width' = width
    /\ height' = height

\* C22: a call of QueueDirection leaves the queue as it is or appends
\* newDirection at its back, and changes nothing else: not the committed
\* direction, the snake, the apple, the width or the height, nor the entries
\* already queued.
C22_EnqueueOnlyAppends == [][EnqueueAppendsOrSkips]_vars

\* QueueDirection has put a third direction behind two queued ones
C22_Witness ==
  /\ Enqueued
  /\ Len(last.queue) = 2
  /\ directionQueue = Append(last.queue, last.arg)

\* the last call was Render(game, last.arg[1], last.arg[2])
Rendered == last.op = "Render"

\* C23: GetCellSize returns the smaller of floor((screenWidth - 2 * border) /
\* width) and floor((screenHeight - 2 * border) / height) for every window
\* size, windows smaller than 2 * border included.
C23_CellSizeIsFloorMin ==
  Rendered =>
    last.ret.cellSize =
      Min((last.arg[1] - 2 * BORDER_THICKNESS) \div width,
          (last.arg[2] - 2 * BORDER_THICKNESS) \div height)

\* C24: in a window of at least 2 * border pixels on each axis the cell size
\* is the largest for which the grid and its border fit on both axes, and
\* the centring offsets (window - cell size * grid) div 2 are at least the
\* border, so the border rectangle starts at a pixel that is not negative.
C24_LargestFittingCell ==
  (/\ Rendered
   /\ last.arg[1] >= 2 * BORDER_THICKNESS
   /\ last.arg[2] >= 2 * BORDER_THICKNESS) =>
    LET c == last.ret.cellSize IN
    /\ c * width + 2 * BORDER_THICKNESS <= last.arg[1]
    /\ c * height + 2 * BORDER_THICKNESS <= last.arg[2]
    /\ \/ (c + 1) * width + 2 * BORDER_THICKNESS > last.arg[1]
       \/ (c + 1) * height + 2 * BORDER_THICKNESS > last.arg[2]
    /\ last.ret.offsetX = (last.arg[1] - c * width) \div 2
    /\ last.ret.offsetY = (last.arg[2] - c * height) \div 2
    /\ last.ret.offsetX >= BORDER_THICKNESS
    /\ last.ret.offsetY >= BORDER_THICKNESS
    /\ last.ret.borderX >= 0
    /\ last.ret.borderY >= 0

\* a grid of 2 x 2 cells was rendered in a window of 12 x 6 pixels: the
\* height allows cells of 1 pixel, the width would allow 4
C24_Witness ==
  /\ Rendered
  /\ width = 2
  /\ height = 2
  /\ last.arg = <<12, 6>>
  /\ last.ret.cellSize = 1
  /\ last.ret.offsetX = 5
  /\ last.ret.offsetY = 2

====
